---- MODULE Spec2Model ----
(***************************************************************************)
(* Round lifecycle (RoundService, lib/round-service.js) and per-subnet    *)
(* task generation (TaskingService, lib/tasking-service.js) of the        *)
(* simple-subnet-api, run against one PostgreSQL store.                   *)
(*                                                                         *)
(* Time is counted in units of checkRoundIntervalMs: one AdvanceClock     *)
(* step is one period of the setInterval timer.  Every `await` of the     *)
(* code is one action: the storage statement it waits for together with   *)
(* the synchronous continuation that runs up to the next `await`.         *)
(***************************************************************************)
EXTENDS Integers, Sequences, FiniteSets, Bags, TLC

\* ---------------------------------------------------------------- bounds
MaxElapsed == 2       \* check intervals the clock runs for
MaxRounds == 3        \* rows of checker_rounds
MaxThreads == 2       \* async invocations in flight at once
MaxStarts == 2        \* calls of start()
MaxFailures == 1      \* storage statements that fail

\* roundDurationMs, in check intervals
RoundDurationMs == 2
\* the value of the clock when the service is constructed
InitNow == 2
MaxTime == InitNow + MaxElapsed

\* the period of the timer, in units of the clock of the timed service
CheckRoundIntervalMs == 3
TimedMaxTime == InitNow + 2 * CheckRoundIntervalMs

\* TaskingConfig.maxTasksPerSubnet
MaxTasksPerSubnet == 1
MaxCalls == 2

Subnets == {"walrus", "arweave"}
Threads == 1..MaxThreads

\* ------------------------------------------------------- sampler functions
\* what a registered function does when it is invoked; Null is the value
\* registerTaskSampler rejects
Returns(ts) == [kind |-> "returns", tasks |-> ts]
Capped(ts) == [kind |-> "capped", tasks |-> ts]
Throws == [kind |-> "throws", tasks |-> <<>>]
NonList == [kind |-> "nonlist", tasks |-> <<>>]
Hangs == [kind |-> "hangs", tasks |-> <<>>]
Null == [kind |-> "null", tasks |-> <<>>]
NoFn == [kind |-> "none", tasks |-> <<>>]

VARIABLES
  now,                    \* NOW() of the store and the clock of the process
  rounds,                 \* checker_rounds: row id = index
  tasks,                  \* checker_subnet_tasks: a bag of rows
  taskSamplers,           \* TaskingService.#taskSamplers
  thr,                    \* the async invocations in flight
  intervals,              \* the live setInterval timers
  due,                    \* the timers whose callback is due at this instant
  checkRoundIntervalId,   \* RoundService.#checkRoundIntervalId
  failures,               \* storage statements that failed so far
  starts,                 \* history: one record per call of start()
  sampled,                \* history: the samplers invoked for each round
  genSettled,             \* history: rounds whose generateTasksForRound settled
  storeFailed,            \* history: <<round, subnet>> whose batch was rolled back
  managed,                \* history: rounds created by #createNewRound
  wasActive,              \* history: rounds that have been active
  currentRound,           \* RoundService.#currentRound of the revision that
                          \* caches the round, 0 for null
  isInitializing,         \* RoundService.#isInitializing of that revision
  conn,                   \* the calls of #storeTasks and #changeRoundActive
                          \* taken one statement at a time
  pool,                   \* the clients of the pool that are checked out
  stopped,                \* history: the stop() on record
  registration,           \* history: the calls of registerTaskSampler
  tickErrors              \* history: the await at which a timer callback last
                          \* caught an error and the rows of checker_rounds then

vars == <<now, rounds, tasks, taskSamplers, conn, pool, thr, intervals, due,
          checkRoundIntervalId, failures, starts, sampled, genSettled,
          storeFailed, managed, wasActive, currentRound, isInitializing,
          stopped, registration, tickErrors>>

\* ------------------------------------------------------------------ store
Round(st, en, act) == [start_time |-> st, end_time |-> en, active |-> act]

\* the rows a test or an earlier run of the service left in checker_rounds:
\* none, an active round that ends later, an active round that has ended,
\* an inactive round
InitialStores ==
  { <<>>,
    << Round(InitNow - 1, InitNow + 1, TRUE) >>,
    << Round(InitNow - RoundDurationMs - 1, InitNow - 1, TRUE) >>,
    << Round(InitNow - RoundDurationMs - 1, InitNow - 1, FALSE) >> }

\* the samplers registered before the service is started
InitialRegistries ==
  { [s \in Subnets |-> NoFn],
    [s \in Subnets |-> IF s = "walrus" THEN Returns(<<"task1", "task2">>) ELSE Throws],
    [s \in Subnets |-> IF s = "walrus" THEN Hangs ELSE Returns(<<"task3">>)] }

ActiveIds == {i \in DOMAIN rounds : rounds[i].active}

\* SELECT ... WHERE active = true ORDER BY start_time DESC LIMIT 1: the rows
\* the statement may return (0 is `null`); rows with equal start_time tie
CurrentActiveRound ==
  IF ActiveIds = {} THEN {0}
  ELSE {i \in ActiveIds : \A j \in ActiveIds : rounds[j].start_time <= rounds[i].start_time}

\* cr.end_time <= NOW() AS is_expired
IsExpired(i) == rounds[i].end_time <= now

\* #getCurrentActiveRound: r is what the caller gets; a failed statement is
\* logged and answered with null
GetCurrentActiveRound(r, failed) ==
  \/ /\ ~failed
     /\ r \in CurrentActiveRound
  \/ /\ failed
     /\ failures < MaxFailures
     /\ r = 0

Failed(failed) == failures' = failures + (IF failed THEN 1 ELSE 0)

\* ---------------------------------------------------------------- threads
NoJob == [st |-> "none", fn |-> NoFn]
NoJobs == [s \in Subnets |-> NoJob]

\* readFailed is history, kept until the transition has read for itself: the
\* read of start() or of the timer callback that began the transition failed
IdleThread ==
  [kind |-> "none", pc |-> "idle", sid |-> 0, currentRound |-> 0,
   newRound |-> 0, jobs |-> NoJobs, readFailed |-> FALSE]

FreeThreads == {t \in Threads : thr[t].pc = "idle"}
FreeThread == CHOOSE t \in FreeThreads : \A u \in FreeThreads : t <= u

\* no call of #storeTasks or #changeRoundActive has been made
NoCall == [pc |-> "none", op |-> "none", roundId |-> 0, active |-> FALSE,
           acquired |-> 0, released |-> 0, error |-> "none", calls |-> 0]

\* no invocation of the service is between two awaits
Settled == \A t \in Threads : thr[t].pc = "idle"

InitService ==
  /\ now = InitNow
  /\ tasks = EmptyBag
  /\ thr = [t \in Threads |-> IdleThread]
  /\ intervals = {}
  /\ due = {}
  /\ checkRoundIntervalId = 0
  /\ failures = 0
  /\ starts = <<>>
  /\ sampled = <<>>
  /\ genSettled = {}
  /\ storeFailed = {}
  /\ managed = {}
  /\ stopped = [called |-> FALSE, scheduled |-> FALSE, busy |-> {}]
  /\ tickErrors = [step |-> "none", rows |-> 0]
  /\ currentRound = 0
  /\ isInitializing = FALSE
  /\ conn = [t \in Threads |-> NoCall]
  /\ pool = 0

\* the functions registered last, the subnets registered more than once and
\* the error of the last call of registerTaskSampler, none so far
Registration(reg) == [last |-> reg, again |-> {}, error |-> <<>>]

Init ==
  /\ InitService
  /\ rounds \in InitialStores
  /\ taskSamplers \in InitialRegistries
  /\ registration = Registration(taskSamplers)
  /\ wasActive = ActiveIds

\* ----------------------------------------------------------- TaskingService
Registered == {s \in Subnets : taskSamplers[s] # NoFn}

\* generateTasksForRound up to its await: every registered sampler is invoked
SampleAll == [s \in Subnets |->
                IF s \in Registered
                  THEN [st |-> "pending", fn |-> taskSamplers[s]]
                  ELSE NoJob]

\* a generateTasksForRound that awaits also when nothing is registered
AlwaysAwaits == FALSE

\* no sampler is registered: generateTasksForRound returns before its await
NoSamplers == Registered = {}

\* JSON.stringify of one payload: `undefined` has no JSON text
JsonStringify(task) == IF task = "undefined" THEN "NULL" ELSE <<"json", task>>

\* the JSONB document the store keeps for a JSON text
JsonB(text) == text[2]

\* task_definition JSONB NOT NULL
ViolatesNotNull(ts) == \E i \in DOMAIN ts : JsonStringify(ts[i]) = "NULL"

\* a table without the foreign key
NoForeignKey(roundId) == FALSE

\* FOREIGN KEY (round_id) REFERENCES checker_rounds (id)
ViolatesForeignKey(roundId) == roundId \notin DOMAIN rounds

\* a foreign key without ON DELETE CASCADE that leaves the rows behind
NoCascade(rs, ts) == ts

\* ON DELETE CASCADE: the rows of checker_subnet_tasks whose round is in rs
Cascade(rs, ts) ==
  LET kept == {row \in BagToSet(ts) : row.round_id \in DOMAIN rs}
  IN [row \in kept |-> ts[row]]

\* an INSERT that adds every distinct payload once
TaskRowsDistinct(roundId, subnet, ts) ==
  LET Row(i) == [round_id |-> roundId, subnet |-> subnet,
                 task_definition |-> JsonB(JsonStringify(ts[i]))]
  IN SetToBag({Row(i) : i \in DOMAIN ts})

\* the rows one INSERT ... FROM UNNEST adds for (roundId, subnet)
TaskRows(roundId, subnet, ts) ==
  LET Row(i) == [round_id |-> roundId, subnet |-> subnet,
                 task_definition |-> JsonB(JsonStringify(ts[i]))]
      Count(row) == Cardinality({i \in DOMAIN ts : Row(i) = row})
  IN [row \in {Row(i) : i \in DOMAIN ts} |-> Count(row)]

\* taskSamplingFn(this.#config.maxTasksPerSubnet): what the sampler resolves
\* to; a Returns sampler ignores its argument, a Capped sampler returns no
\* more payloads than it is asked for
Invoke(fn) ==
  IF fn.kind = "capped" /\ Len(fn.tasks) > MaxTasksPerSubnet
    THEN SubSeq(fn.tasks, 1, MaxTasksPerSubnet)
    ELSE fn.tasks

\* an orchestrator that cuts the list at the capacity
Truncated(ts) ==
  IF Len(ts) > MaxTasksPerSubnet THEN SubSeq(ts, 1, MaxTasksPerSubnet) ELSE ts

\* the list #generateTasksForSubnet hands to #storeTasks
Kept(ts) == ts

\* a test that lets the empty list through to #storeTasks
IsList(fn) == fn.kind \in {"returns", "capped"}

\* Array.isArray(tasks) && tasks.length > 0
HasTasks(fn) == fn.kind \in {"returns", "capped"} /\ Len(Invoke(fn)) > 0

\* the rows of checker_subnet_tasks owned by a round
RowsOf(roundId) ==
  LET rs == {row \in BagToSet(tasks) : row.round_id = roundId}
  IN [row \in rs |-> tasks[row]]

\* the rows of checker_subnet_tasks owned by a subnet of a round
RowsOfSubnet(roundId, subnet) ==
  LET rs == {row \in BagToSet(tasks) : row.round_id = roundId /\ row.subnet = subnet}
  IN [row \in rs |-> tasks[row]]

\* ------------------------------------------------------------ RoundService
\* the value start()'s catch block throws: `throw err` names no binding
StartCatchThrows == "ReferenceError"

\* the timers #scheduleRoundCheck has created so far
Scheduled == {sid \in DOMAIN starts : starts[sid].result = "resolved"}

\* start() after #initializeRound resolved: #scheduleRoundCheck, then resolve
StartResolves(t) ==
  LET sid == thr[t].sid IN
  /\ intervals' = intervals \cup {sid}
  /\ checkRoundIntervalId' = sid
  /\ starts' = [starts EXCEPT ![sid].result = "resolved"]
  /\ thr' = [thr EXCEPT ![t] = IdleThread]

\* a callback that gives up its timer when a transition fails
TimersClearedOnError == {}

\* the catch of the timer callback: the error is logged, the timer lives on
TimersAfterError == intervals

\* a callback that runs its check again from its catch block
RetriesAtOnce == [IdleThread EXCEPT !.kind = "tick", !.pc = "roundCheck"]

\* the catch of the timer callback: the callback returns
Caught == IdleThread

\* an error leaves #startNewRound: start() rethrows from its catch block, the
\* timer callback logs it
TransitionThrows(t) ==
  /\ thr' = [thr EXCEPT ![t] = IF thr[t].kind = "tick" THEN Caught
                                                       ELSE IdleThread]
  /\ IF thr[t].kind = "start"
       THEN starts' = [starts EXCEPT ![thr[t].sid].result = "rejected",
                                     ![thr[t].sid].error = StartCatchThrows]
       ELSE UNCHANGED starts
  /\ tickErrors' = IF thr[t].kind = "tick"
                     THEN [step |-> thr[t].pc, rows |-> Len(rounds)]
                     ELSE tickErrors
  /\ intervals' = IF thr[t].kind = "tick" THEN TimersAfterError ELSE intervals
  /\ UNCHANGED checkRoundIntervalId

\* #startNewRound returned normally
TransitionReturns(t) ==
  IF thr[t].kind = "start"
    THEN StartResolves(t)
    ELSE /\ thr' = [thr EXCEPT ![t] = IdleThread]
         /\ UNCHANGED <<intervals, checkRoundIntervalId, starts>>

\* start() up to its first await
StartCall ==
  /\ Len(starts) < MaxStarts
  /\ FreeThreads # {}
  /\ starts' = Append(starts,
       [callNow |-> now, callLen |-> Len(rounds), callFailures |-> failures,
        callActive |-> ActiveIds,
        reentered |-> \E i \in DOMAIN starts : starts[i].result = "pending",
        result |-> "pending", error |-> "none"])
  /\ thr' = [thr EXCEPT ![FreeThread] =
               [IdleThread EXCEPT !.kind = "start", !.pc = "initializeRound",
                                  !.sid = Len(starts) + 1]]
  /\ UNCHANGED <<now, rounds, tasks, taskSamplers, conn, pool, intervals, due,
                 checkRoundIntervalId, failures, sampled, genSettled,
                 storeFailed, managed, wasActive, currentRound,
                 isInitializing, tickErrors, stopped, registration>>

\* the caller starts the service, or starts it again after start() rejected
Start ==
  /\ \A i \in DOMAIN starts : starts[i].result = "rejected"
  /\ StartCall

\* the caller invokes start() while an earlier start() has not settled
StartAgain ==
  /\ \E i \in DOMAIN starts : starts[i].result = "pending"
  /\ StartCall

\* a stop() that leaves the timers alone
ClearNothing(ts, id) == ts

\* a stop() that abandons the invocations in flight
InFlightCancelled == [t \in Threads |-> IdleThread]

\* stop() does not touch the invocations in flight
InFlightAfterStop == thr

\* clearInterval(id): the timer fires no more, a callback that is due is dropped
ClearInterval(ts, id) == ts \ {id}

\* a stop() that also marks the active rounds inactive
StopEndsRound ==
  /\ intervals' = IF checkRoundIntervalId # 0
                    THEN ClearInterval(intervals, checkRoundIntervalId)
                    ELSE intervals
  /\ due' = IF checkRoundIntervalId # 0
              THEN ClearInterval(due, checkRoundIntervalId)
              ELSE due
  /\ thr' = InFlightAfterStop
  /\ rounds' = [r \in DOMAIN rounds |-> [rounds[r] EXCEPT !.active = FALSE]]
  /\ UNCHANGED <<now, tasks, taskSamplers, conn, pool, checkRoundIntervalId,
                 failures, starts, sampled, genSettled, storeFailed, managed,
                 wasActive, currentRound, isInitializing, tickErrors,
                 registration>>

\* stop(): clearInterval of the timer the field names
StopCall ==
  /\ intervals' = IF checkRoundIntervalId # 0
                    THEN ClearInterval(intervals, checkRoundIntervalId)
                    ELSE intervals
  /\ due' = IF checkRoundIntervalId # 0
              THEN ClearInterval(due, checkRoundIntervalId)
              ELSE due
  /\ thr' = InFlightAfterStop
  /\ UNCHANGED <<now, rounds, tasks, taskSamplers, conn, pool,
                 checkRoundIntervalId, failures, starts, sampled, genSettled,
                 storeFailed, managed, wasActive, currentRound,
                 isInitializing, tickErrors, registration>>

\* the caller stops the service
Stop ==
  /\ StopCall
  /\ UNCHANGED stopped

\* the awaits of #startNewRound
TransitionSteps ==
  {"startNewRound", "createNewRound", "generateTasks", "deactivate", "activate"}

\* what the invocations in flight are doing: reading the current round to
\* decide, or in a transition
InFlight ==
  {IF thr[t].pc \in TransitionSteps THEN "transition" ELSE "check" :
     t \in {u \in Threads : thr[u].pc # "idle"}}

\* the caller stops the service; the first stop() that finds a timer or a
\* transition in flight is put on record
StopRecorded ==
  /\ StopCall
  /\ stopped' = IF ~stopped.called /\ (Scheduled # {} \/ "transition" \in InFlight)
                  THEN [called |-> TRUE, scheduled |-> Scheduled # {},
                        busy |-> InFlight]
                  ELSE stopped

\* the test without its expiry half, as in the revision that resumed any
\* active round
ResumesAnyActive(r) == r # 0

\* the test with its expiry half inverted
ResumesExpired(r) == r # 0 /\ IsExpired(r)

\* #initializeRound: currentRound && !currentRound.is_expired
Resumes(r) == r # 0 /\ ~IsExpired(r)

\* the timer callback: currentRound && !currentRound.is_expired
StillRunning(r) == r # 0 /\ ~IsExpired(r)

\* #initializeRound: resume the active round unless it is expired
InitializeRound(t) ==
  /\ thr[t].pc = "initializeRound"
  /\ \E failed \in BOOLEAN, r \in 0..Len(rounds) :
       /\ GetCurrentActiveRound(r, failed)
       /\ Failed(failed)
       /\ IF Resumes(r)
            THEN StartResolves(t)
            ELSE /\ thr' = [thr EXCEPT ![t].pc = "startNewRound",
                                        ![t].readFailed = failed]
                 /\ UNCHANGED <<intervals, checkRoundIntervalId, starts>>
  /\ UNCHANGED <<now, rounds, tasks, taskSamplers, conn, pool, due, sampled,
                 genSettled, storeFailed, managed, wasActive, currentRound,
                 isInitializing, tickErrors, stopped, registration>>

\* one period of the timer passes; every live timer becomes due
AdvanceClock ==
  /\ now < MaxTime
  /\ due = {}
  /\ now' = now + 1
  /\ due' = intervals
  /\ UNCHANGED <<rounds, tasks, taskSamplers, conn, pool, thr, intervals,
                 checkRoundIntervalId, failures, starts, sampled, genSettled,
                 storeFailed, managed, wasActive, currentRound,
                 isInitializing, tickErrors, stopped, registration>>

\* #scheduleRoundCheck: the timer invokes its async callback
TimerFires(i) ==
  /\ i \in due
  /\ FreeThreads # {}
  /\ due' = due \ {i}
  /\ thr' = [thr EXCEPT ![FreeThread] =
               [IdleThread EXCEPT !.kind = "tick", !.pc = "roundCheck"]]
  /\ UNCHANGED <<now, rounds, tasks, taskSamplers, conn, pool, intervals,
                 checkRoundIntervalId, failures, starts, sampled, genSettled,
                 storeFailed, managed, wasActive, currentRound,
                 isInitializing, tickErrors, stopped, registration>>

\* the callback's read: return while the active round has not expired
RoundCheck(t) ==
  /\ thr[t].pc = "roundCheck"
  /\ \E failed \in BOOLEAN, r \in 0..Len(rounds) :
       /\ GetCurrentActiveRound(r, failed)
       /\ Failed(failed)
       /\ thr' = [thr EXCEPT ![t] =
                    IF StillRunning(r)
                      THEN IdleThread
                      ELSE [thr[t] EXCEPT !.pc = "startNewRound",
                                          !.readFailed = failed]]
  /\ UNCHANGED <<now, rounds, tasks, taskSamplers, conn, pool, intervals, due,
                 checkRoundIntervalId, starts, sampled, genSettled,
                 storeFailed, managed, wasActive, currentRound,
                 isInitializing, tickErrors, stopped, registration>>

\* #startNewRound, first await: read the round to deactivate later
StartNewRound(t) ==
  /\ thr[t].pc = "startNewRound"
  /\ \E failed \in BOOLEAN, r \in 0..Len(rounds) :
       /\ GetCurrentActiveRound(r, failed)
       /\ Failed(failed)
       /\ thr' = [thr EXCEPT ![t].pc = "createNewRound", ![t].currentRound = r,
                              ![t].readFailed = FALSE]
  /\ UNCHANGED <<now, rounds, tasks, taskSamplers, conn, pool, intervals, due,
                 checkRoundIntervalId, starts, sampled, genSettled,
                 storeFailed, managed, wasActive, currentRound,
                 isInitializing, tickErrors, stopped, registration>>

\* a transition that goes from the tasks straight to the activation
SkipsDeactivation(t) == "activate"

\* a transition that deactivates whatever it read
AlwaysDeactivates(t) == "deactivate"

\* what awaits #startNewRound after generateTasksForRound resolved
AfterGenerate(t) == IF thr[t].currentRound # 0 THEN "deactivate" ELSE "activate"

\* a row inserted already active, as by the revision that passed `true`
CreatedActiveExposed == TRUE

\* the flag #createNewRound inserts the row with
CreatedActive == FALSE

\* a row whose end_time is not moved by the round duration
NewRoundEndsAtOnce == Round(now, now, CreatedActive)

\* the row #createNewRound inserts
NewRound == Round(now, now + RoundDurationMs, CreatedActive)

\* #createNewRound, then generateTasksForRound up to its await
CreateNewRound(t) ==
  /\ thr[t].pc = "createNewRound"
  /\ \/ /\ Len(rounds) < MaxRounds
        /\ rounds' = Append(rounds, NewRound)
        /\ managed' = managed \cup {Len(rounds) + 1}
        /\ wasActive' = wasActive \cup
                          (IF NewRound.active THEN {Len(rounds) + 1} ELSE {})
        /\ sampled' = sampled @@ ((Len(rounds) + 1) :> SampleAll)
        /\ IF NoSamplers
             THEN /\ thr' = [thr EXCEPT ![t].newRound = Len(rounds) + 1,
                                        ![t].pc = AfterGenerate(t)]
                  /\ genSettled' = genSettled \cup {Len(rounds) + 1}
             ELSE /\ thr' = [thr EXCEPT ![t].newRound = Len(rounds) + 1,
                                        ![t].pc = "generateTasks",
                                        ![t].jobs = SampleAll]
                  /\ UNCHANGED genSettled
        /\ UNCHANGED <<failures, intervals, checkRoundIntervalId, starts, tickErrors>>
     \/ /\ failures < MaxFailures
        /\ failures' = failures + 1
        /\ TransitionThrows(t)
        /\ UNCHANGED <<rounds, managed, wasActive, sampled, genSettled>>
  /\ UNCHANGED <<now, tasks, taskSamplers, conn, pool, due, storeFailed,
                 stopped, registration, currentRound, isInitializing>>

\* the jobs awaited one after the other, in the order of Object.keys
RunsInTurn(t, s) ==
  /\ thr[t].jobs[s].st = "pending"
  /\ \A u \in Subnets :
       (u = "walrus" /\ s # "walrus") => thr[t].jobs[u].st # "pending"

\* Promise.all over subnets.map: every job runs as soon as its sampler settles
Runnable(t, s) == thr[t].jobs[s].st = "pending"

\* one rejection abandons the jobs that have not settled yet
SiblingsAbandoned(js) ==
  [s \in Subnets |-> IF js[s].st = "pending" THEN [st |-> "settled", fn |-> NoFn]
                                             ELSE js[s]]

\* the catch of #generateTasksForSubnet: the error is logged, the jobs of the
\* other subnets go on
SiblingsAfterThrow(js) == js

\* generateTasksForRound resolved for the invocation t: #startNewRound goes
\* on, a direct call is over
GenerateReturns(t) ==
  /\ genSettled' = genSettled \cup {thr[t].newRound}
  /\ thr' = IF thr[t].kind = "generate"
              THEN [thr EXCEPT ![t] = IdleThread]
              ELSE [thr EXCEPT ![t].pc = AfterGenerate(t), ![t].jobs = NoJobs]

\* a ROLLBACK of one transaction shared by the subnets of a round
RolledBackRound(roundId, subnet) ==
  LET rs == {row \in BagToSet(tasks) : row.round_id # roundId}
  IN [row \in rs |-> tasks[row]]

\* an insert outside a transaction: the row before the failure stays
RolledBackAfterFirst(roundId, subnet) ==
  tasks (+) TaskRows(roundId, subnet,
                     SubSeq(sampled[roundId][subnet].fn.tasks, 1, 1))

\* the table after the ROLLBACK of #storeTasks: the transaction belongs to one
\* batch, nothing committed before is undone
RolledBack(roundId, subnet) == tasks

\* a catch block that throws the error on
Rethrows == FALSE

\* the catch of #generateTasksForSubnet: the error of the sampler or of
\* #storeTasks is logged and the job resolves
Catches == TRUE

\* Promise.all rejected: generateTasksForRound throws to #startNewRound or to
\* the caller
GenerateRejects(t) ==
  IF thr[t].kind = "generate"
    THEN /\ thr' = [thr EXCEPT ![t] = IdleThread]
         /\ UNCHANGED <<genSettled, intervals, checkRoundIntervalId, starts,
                        tickErrors>>
    ELSE /\ TransitionThrows(t)
         /\ UNCHANGED genSettled

\* #generateTasksForSubnet once its sampler settled, with #storeTasks
GenerateTasksForSubnet(t, s) ==
  /\ thr[t].pc = "generateTasks"
  /\ Runnable(t, s)
  /\ thr[t].jobs[s].fn # Hangs
  /\ LET fn == thr[t].jobs[s].fn
         done == [thr[t].jobs EXCEPT ![s] = [st |-> "settled", fn |-> NoFn]]
         js == IF fn = Throws THEN SiblingsAfterThrow(done) ELSE done
     IN \E error \in BOOLEAN :
          /\ \/ /\ HasTasks(fn)
                /\ ~ViolatesNotNull(Kept(Invoke(fn)))
                /\ ~ViolatesForeignKey(thr[t].newRound)
                /\ ~error
                /\ tasks' = tasks (+) TaskRows(thr[t].newRound, s,
                                               Kept(Invoke(fn)))
                /\ UNCHANGED <<failures, storeFailed>>
             \/ /\ HasTasks(fn)
                /\ \/ ViolatesNotNull(Kept(Invoke(fn)))
                   \/ ViolatesForeignKey(thr[t].newRound)
                /\ error
                /\ storeFailed' = storeFailed \cup {<<thr[t].newRound, s>>}
                /\ tasks' = RolledBack(thr[t].newRound, s)
                /\ UNCHANGED failures
             \/ /\ HasTasks(fn)
                /\ failures < MaxFailures
                /\ error
                /\ failures' = failures + 1
                /\ storeFailed' = storeFailed \cup {<<thr[t].newRound, s>>}
                /\ tasks' = RolledBack(thr[t].newRound, s)
             \/ /\ ~HasTasks(fn)
                /\ error = (fn = Throws)
                /\ UNCHANGED <<tasks, failures, storeFailed>>
          /\ IF error /\ ~Catches
               THEN GenerateRejects(t)
               ELSE /\ IF \A u \in Subnets : js[u].st # "pending"
                         THEN GenerateReturns(t)
                         ELSE /\ thr' = [thr EXCEPT ![t].jobs = js]
                              /\ UNCHANGED genSettled
                    /\ UNCHANGED <<intervals, checkRoundIntervalId, starts,
                                   tickErrors>>
  /\ UNCHANGED <<now, rounds, taskSamplers, conn, pool, due, sampled, managed,
                 wasActive, currentRound, isInitializing, stopped,
                 registration>>

\* the values a caller passes to registerTaskSampler
SamplerFns ==
  { Returns(<<"task1", "task2">>), Returns(<<"task3", "task3">>),
    Returns(<<"task3", "undefined">>), Returns(<<>>), Throws, NonList, Null }

\* a check that lets every value through
AnyValueIsFunction(fn) == TRUE

\* typeof sampleFn === 'function'
IsFunction(fn) == fn # Null

\* the Error registerTaskSampler throws
MustBeFunction(subnet) == <<"Task sampler for subnet", subnet, "must be a function">>

\* a registry that keeps the sampler registered first
KeepsFirst(reg, subnet, fn) ==
  IF reg[subnet] = NoFn THEN [reg EXCEPT ![subnet] = fn] ELSE reg

\* this.#taskSamplers[subnet] = sampleFn
Assign(reg, subnet, fn) == [reg EXCEPT ![subnet] = fn]

\* registerTaskSampler(subnet, sampleFn)
RegisterTaskSampler(subnet, fn) ==
  /\ IF IsFunction(fn)
       THEN /\ taskSamplers' = Assign(taskSamplers, subnet, fn)
            /\ registration' =
                 [last  |-> [registration.last EXCEPT ![subnet] = fn],
                  again |-> registration.again \cup
                              (IF registration.last[subnet] # NoFn
                                 THEN {subnet} ELSE {}),
                  error |-> <<>>]
       ELSE /\ UNCHANGED taskSamplers
            /\ registration' = [registration EXCEPT !.error = MustBeFunction(subnet)]
  /\ UNCHANGED <<now, rounds, tasks, thr, intervals, due,
                 checkRoundIntervalId, conn, pool, failures, starts, sampled,
                 genSettled, storeFailed, managed, wasActive, currentRound,
                 isInitializing, stopped, tickErrors>>

\* generateTasksForRound(roundId) called by a test or a tool, once per round,
\* up to its await
GenerateTasksForRound(roundId) ==
  /\ roundId \notin DOMAIN sampled
  /\ FreeThreads # {}
  /\ sampled' = sampled @@ (roundId :> SampleAll)
  /\ IF NoSamplers
       THEN /\ genSettled' = genSettled \cup {roundId}
            /\ UNCHANGED thr
       ELSE /\ thr' = [thr EXCEPT ![FreeThread] =
                         [IdleThread EXCEPT !.kind = "generate",
                                            !.pc = "generateTasks",
                                            !.newRound = roundId,
                                            !.jobs = SampleAll]]
            /\ UNCHANGED genSettled
  /\ UNCHANGED <<now, rounds, tasks, taskSamplers, conn, pool, intervals, due,
                 checkRoundIntervalId, failures, starts, storeFailed, managed,
                 wasActive, currentRound, isInitializing, stopped,
                 registration, tickErrors>>

\* an UPDATE that leaves no other round active
ChangeRoundActiveAlone(roundId, active) ==
  [r \in DOMAIN rounds |->
     [rounds[r] EXCEPT !.active = IF r = roundId THEN active ELSE FALSE]]

\* an UPDATE that flips the flag of the round whatever the value passed
ChangeRoundActiveFlips(roundId, active) ==
  [rounds EXCEPT ![roundId].active = ~rounds[roundId].active]

\* #changeRoundActive: the table after a committed UPDATE
ChangeRoundActive(roundId, active) == [rounds EXCEPT ![roundId].active = active]

\* #startNewRound: mark the previous round inactive
Deactivate(t) ==
  /\ thr[t].pc = "deactivate"
  /\ \/ /\ rounds' = ChangeRoundActive(thr[t].currentRound, FALSE)
        /\ thr' = [thr EXCEPT ![t].pc = "activate"]
        /\ UNCHANGED <<failures, intervals, checkRoundIntervalId, starts, tickErrors>>
     \/ /\ failures < MaxFailures
        /\ failures' = failures + 1
        /\ TransitionThrows(t)
        /\ UNCHANGED rounds
  /\ UNCHANGED <<now, tasks, taskSamplers, conn, pool, due, sampled,
                 genSettled, storeFailed, managed, wasActive, currentRound,
                 isInitializing, stopped, registration>>

\* #startNewRound: mark the new round active; the transition is over
Activate(t) ==
  /\ thr[t].pc = "activate"
  /\ \/ /\ rounds' = ChangeRoundActive(thr[t].newRound, TRUE)
        /\ wasActive' = wasActive \cup {thr[t].newRound}
        /\ TransitionReturns(t)
        /\ UNCHANGED <<failures, tickErrors>>
     \/ /\ failures < MaxFailures
        /\ failures' = failures + 1
        /\ TransitionThrows(t)
        /\ UNCHANGED <<rounds, wasActive>>
  /\ UNCHANGED <<now, tasks, taskSamplers, conn, pool, due, sampled, genSettled,
                 storeFailed, managed, stopped, registration, currentRound,
                 isInitializing>>

\* --------------------------------------------------------- specifications
\* one step of an invocation in flight
Step ==
  \/ \E t \in Threads : InitializeRound(t)
  \/ \E t \in Threads : RoundCheck(t)
  \/ \E t \in Threads : StartNewRound(t)
  \/ \E t \in Threads : CreateNewRound(t)
  \/ \E t \in Threads, s \in Subnets : GenerateTasksForSubnet(t, s)
  \/ \E t \in Threads : Deactivate(t)
  \/ \E t \in Threads : Activate(t)

\* one service, started by one caller at a time
Next ==
  \/ Start
  \/ Stop
  \/ AdvanceClock
  \/ \E i \in due : TimerFires(i)
  \/ Step

Spec == Init /\ [][Next]_vars

\* a caller that may call start() again before start() has settled
NextReentrant ==
  \/ Next
  \/ StartAgain

SpecReentrant == Init /\ [][NextReentrant]_vars

\* the service where every sampler settles and every invocation is over
\* before the next period of the timer begins; past MaxTime the clock is no
\* longer counted but the timers go on firing
SettlingRegistries ==
  {reg \in InitialRegistries : \A s \in Subnets : reg[s] # Hangs}

InitSettling ==
  /\ InitService
  /\ rounds \in InitialStores
  /\ taskSamplers \in SettlingRegistries
  /\ registration = Registration(taskSamplers)
  /\ wasActive = ActiveIds

\* one period of the timer passes once the callbacks of the last are done
Tick ==
  /\ Settled
  /\ due = {}
  /\ now' = IF now < MaxTime THEN now + 1 ELSE now
  /\ due' = intervals
  /\ UNCHANGED <<rounds, tasks, taskSamplers, conn, pool, thr, intervals,
                 checkRoundIntervalId, failures, starts, sampled, genSettled,
                 storeFailed, managed, wasActive, currentRound,
                 isInitializing, tickErrors, stopped, registration>>

NextRunning ==
  \/ Start
  \/ Tick
  \/ \E i \in due : TimerFires(i)
  \/ Step

\* the service whose invocations are over before the next period of the timer
\* begins, the stop() of its caller on record
NextStoppable ==
  \/ Start
  \/ StopRecorded
  \/ Tick
  \/ \E i \in due : TimerFires(i)
  \/ Step

SpecStoppable == Init /\ [][NextStoppable]_vars

\* the timer keeps firing, the event loop runs the due callbacks and the
\* store answers every statement
SpecRunning ==
  /\ InitSettling
  /\ [][NextRunning]_vars
  /\ WF_vars(Tick)
  /\ WF_vars(\E i \in due : TimerFires(i))
  /\ WF_vars(Step)

\* a TaskingService of its own, over a store that holds a round: samplers are
\* registered and tasks generated by direct calls
TaskingStores == { << Round(InitNow - 1, InitNow + 1, TRUE) >> }

InitTasking ==
  /\ InitService
  /\ rounds \in TaskingStores
  /\ taskSamplers = [s \in Subnets |-> NoFn]
  /\ registration = Registration(taskSamplers)
  /\ wasActive = ActiveIds

NextTasking ==
  \/ \E s \in Subnets, fn \in SamplerFns : RegisterTaskSampler(s, fn)
  \/ \E r \in DOMAIN rounds : GenerateTasksForRound(r)
  \/ \E t \in Threads, s \in Subnets : GenerateTasksForSubnet(t, s)

SpecTasking == InitTasking /\ [][NextTasking]_vars

\* a timer that fires every other period
FiresEveryOther(sid, t) ==
  (t - starts[sid].callNow) % (2 * CheckRoundIntervalMs) = 0

\* setInterval(..., checkRoundIntervalMs): the timer of the start() sid,
\* which settled at the instant of its call, fires at t
FiresAt(sid, t) == (t - starts[sid].callNow) % CheckRoundIntervalMs = 0

\* one unit of the clock passes in the timed service: start() has settled,
\* and every invocation is over before the next period of its timer begins
Elapse ==
  /\ now < TimedMaxTime
  /\ due = {}
  /\ \A t \in Threads : thr[t].kind # "start"
  /\ LET fires == {i \in intervals : FiresAt(i, now + 1)} IN
       /\ fires # {} => Settled
       /\ due' = fires
  /\ now' = now + 1
  /\ UNCHANGED <<rounds, tasks, taskSamplers, conn, pool, thr, intervals,
                 checkRoundIntervalId, failures, starts, sampled, genSettled,
                 storeFailed, managed, wasActive, currentRound,
                 isInitializing, tickErrors, stopped, registration>>

\* the service on a clock finer than the period of its timer
NextTimed ==
  \/ Start
  \/ Elapse
  \/ \E i \in due : TimerFires(i)
  \/ Step

SpecTimed == InitSettling /\ [][NextTimed]_vars

\* the running service with samplers that return no payload: the empty list,
\* or a value that is no list
EmptyHandedRegistries ==
  { [s \in Subnets |-> IF s = "walrus" THEN Returns(<<>>) ELSE Returns(<<"task3">>)],
    [s \in Subnets |-> IF s = "walrus" THEN NonList ELSE Returns(<<"task1", "task2">>)],
    [s \in Subnets |-> IF s = "walrus" THEN Returns(<<>>) ELSE NonList] }

InitEmptyHanded ==
  /\ InitService
  /\ rounds \in InitialStores
  /\ taskSamplers \in EmptyHandedRegistries
  /\ registration = Registration(taskSamplers)
  /\ wasActive = ActiveIds

SpecEmptyHanded == InitEmptyHanded /\ [][NextRunning]_vars

\* the running service with a sampler that returns more payloads than the
\* capacity and one that keeps to the capacity it is given
CapacityRegistries ==
  { [s \in Subnets |-> IF s = "walrus" THEN Returns(<<"task1", "task2">>)
                                        ELSE Capped(<<"task3", "task3">>)],
    [s \in Subnets |-> IF s = "walrus" THEN Capped(<<"task1", "task2">>)
                                        ELSE Returns(<<"task3">>)] }

InitCapacity ==
  /\ InitService
  /\ rounds \in InitialStores
  /\ taskSamplers \in CapacityRegistries
  /\ registration = Registration(taskSamplers)
  /\ wasActive = ActiveIds

SpecCapacity == InitCapacity /\ [][NextRunning]_vars

\* two instances of the service over one store, each started once and one
\* after the other; every call of start() is the call of a new instance and
\* every instance has a timer of its own
Instances == {1, 2}

StartInstance ==
  /\ Settled
  /\ due = {}
  /\ Len(starts) + 1 \in Instances
  /\ StartCall

NextInstances ==
  \/ StartInstance
  \/ Tick
  \/ \E i \in due : TimerFires(i)
  \/ Step

SpecInstances == InitSettling /\ [][NextInstances]_vars

\* the running service whose TaskingService is also called directly
NextDirect ==
  \/ NextRunning
  \/ \E r \in DOMAIN rounds : GenerateTasksForRound(r)

SpecDirect == InitSettling /\ [][NextDirect]_vars

\* DELETE FROM checker_rounds, as the tests run it between two cases, with the
\* cascade of the foreign key
DeleteRounds ==
  /\ rounds # << >>
  /\ rounds' = << >>
  /\ tasks' = Cascade(rounds', tasks)
  /\ UNCHANGED <<now, taskSamplers, conn, pool, thr, intervals, due,
                 checkRoundIntervalId, failures, starts, sampled, genSettled,
                 storeFailed, managed, wasActive, currentRound,
                 isInitializing, stopped, registration, tickErrors>>

\* the TaskingService called for the round of the store and for an id no row
\* has, while the rounds are deleted under it
NextCascade ==
  \/ \E r \in 1 .. Len(rounds) + 1 : GenerateTasksForRound(r)
  \/ \E t \in Threads, s \in Subnets : GenerateTasksForSubnet(t, s)
  \/ DeleteRounds

InitCascade ==
  /\ InitService
  /\ rounds \in TaskingStores
  /\ taskSamplers \in InitialRegistries
  /\ registration = Registration(taskSamplers)
  /\ wasActive = ActiveIds

SpecCascade == InitCascade /\ [][NextCascade]_vars

\* ------------------------------ the revision that caches the current round
\* [now, endTime, true]: the flag this revision inserts the row with
CachedCreatedActive == TRUE

\* the row #createNewRound of this revision inserts
CachedNewRound == Round(now, now + RoundDurationMs, CachedCreatedActive)

\* start() of this revision settles: after #scheduleRoundCheck, or after its
\* catch block logged the error; finally it resets the flag
CachedStartSettles(t, scheduled) ==
  LET sid == thr[t].sid IN
  /\ intervals' = IF scheduled THEN intervals \cup {sid} ELSE intervals
  /\ checkRoundIntervalId' = IF scheduled THEN sid ELSE checkRoundIntervalId
  /\ starts' = [starts EXCEPT ![sid].result =
                                 IF scheduled THEN "resolved" ELSE "logged"]
  /\ isInitializing' = FALSE
  /\ thr' = [thr EXCEPT ![t] = IdleThread]

\* an error leaves #startNewRound: start() and the timer callback log it
CachedThrows(t) ==
  /\ IF thr[t].kind = "start"
       THEN CachedStartSettles(t, FALSE)
       ELSE /\ thr' = [thr EXCEPT ![t] = IdleThread]
            /\ UNCHANGED <<intervals, checkRoundIntervalId, starts,
                           isInitializing>>
  /\ tickErrors' = IF thr[t].kind = "tick"
                     THEN [step |-> thr[t].pc, rows |-> Len(rounds)]
                     ELSE tickErrors

\* #startNewRound returned normally
CachedReturns(t) ==
  IF thr[t].kind = "start"
    THEN CachedStartSettles(t, TRUE)
    ELSE /\ thr' = [thr EXCEPT ![t] = IdleThread]
         /\ UNCHANGED <<intervals, checkRoundIntervalId, starts, isInitializing>>

\* start() up to its first await; a call that finds the flag set returns
CachedStart ==
  /\ ~isInitializing
  /\ Len(starts) < MaxStarts
  /\ FreeThreads # {}
  /\ isInitializing' = TRUE
  /\ starts' = Append(starts,
       [callNow |-> now, callLen |-> Len(rounds), callFailures |-> failures,
        callActive |-> ActiveIds, reentered |-> FALSE,
        result |-> "pending", error |-> "none"])
  /\ thr' = [thr EXCEPT ![FreeThread] =
               [IdleThread EXCEPT !.kind = "start", !.pc = "initializeRound",
                                  !.sid = Len(starts) + 1]]
  /\ UNCHANGED <<now, rounds, tasks, taskSamplers, conn, pool, intervals, due,
                 checkRoundIntervalId, failures, sampled, genSettled,
                 storeFailed, managed, wasActive, currentRound, tickErrors,
                 stopped, registration>>

\* #initializeRound of this revision: any active round is resumed and cached
CachedInitializeRound(t) ==
  /\ thr[t].pc = "initializeRound"
  /\ \E failed \in BOOLEAN, r \in 0..Len(rounds) :
       /\ GetCurrentActiveRound(r, failed)
       /\ Failed(failed)
       /\ IF r # 0
            THEN /\ currentRound' = r
                 /\ CachedStartSettles(t, TRUE)
            ELSE /\ thr' = [thr EXCEPT ![t].pc = "startNewRound"]
                 /\ UNCHANGED <<currentRound, intervals, checkRoundIntervalId,
                                starts, isInitializing>>
  /\ UNCHANGED <<now, rounds, tasks, taskSamplers, conn, pool, due, sampled,
                 genSettled, storeFailed, managed, wasActive, tickErrors,
                 stopped, registration>>

\* the timer callback of this revision: it decides on the cached round and
\* reads nothing
CachedTimerFires(i) ==
  /\ i \in due
  /\ due' = due \ {i}
  /\ IF currentRound # 0 /\ rounds[currentRound].end_time <= now
       THEN /\ FreeThreads # {}
            /\ thr' = [thr EXCEPT ![FreeThread] =
                         [IdleThread EXCEPT !.kind = "tick",
                                            !.pc = "startNewRound"]]
       ELSE UNCHANGED thr
  /\ UNCHANGED <<now, rounds, tasks, taskSamplers, conn, pool, intervals,
                 checkRoundIntervalId, failures, starts, sampled, genSettled,
                 storeFailed, managed, wasActive, currentRound, isInitializing,
                 tickErrors, stopped, registration>>

\* this.#currentRound = await this.#createNewRound(), then
\* generateTasksForRound up to its await
CachedCreateNewRound(t) ==
  /\ thr[t].pc = "createNewRound"
  /\ \/ /\ Len(rounds) < MaxRounds
        /\ rounds' = Append(rounds, CachedNewRound)
        /\ currentRound' = Len(rounds) + 1
        /\ managed' = managed \cup {Len(rounds) + 1}
        /\ wasActive' = wasActive \cup
                          (IF CachedNewRound.active THEN {Len(rounds) + 1} ELSE {})
        /\ sampled' = sampled @@ ((Len(rounds) + 1) :> SampleAll)
        /\ IF NoSamplers
             THEN /\ thr' = [thr EXCEPT ![t].newRound = Len(rounds) + 1,
                                        ![t].pc = AfterGenerate(t)]
                  /\ genSettled' = genSettled \cup {Len(rounds) + 1}
             ELSE /\ thr' = [thr EXCEPT ![t].newRound = Len(rounds) + 1,
                                        ![t].pc = "generateTasks",
                                        ![t].jobs = SampleAll]
                  /\ UNCHANGED genSettled
        /\ UNCHANGED <<failures, intervals, checkRoundIntervalId, starts,
                       isInitializing, tickErrors>>
     \/ /\ failures < MaxFailures
        /\ failures' = failures + 1
        /\ CachedThrows(t)
        /\ UNCHANGED <<rounds, currentRound, managed, wasActive, sampled,
                       genSettled>>
  /\ UNCHANGED <<now, tasks, taskSamplers, conn, pool, due, storeFailed, stopped,
                 registration>>

\* #startNewRound of this revision: mark the previous round inactive
CachedDeactivate(t) ==
  /\ thr[t].pc = "deactivate"
  /\ \/ /\ rounds' = ChangeRoundActive(thr[t].currentRound, FALSE)
        /\ thr' = [thr EXCEPT ![t].pc = "activate"]
        /\ UNCHANGED <<failures, intervals, checkRoundIntervalId, starts,
                       isInitializing, tickErrors>>
     \/ /\ failures < MaxFailures
        /\ failures' = failures + 1
        /\ CachedThrows(t)
        /\ UNCHANGED rounds
  /\ UNCHANGED <<now, tasks, taskSamplers, conn, pool, due, sampled, genSettled,
                 storeFailed, managed, wasActive, currentRound, stopped,
                 registration>>

\* #changeRoundActive(this.#currentRound.id, true): the round the field names
\* by now is marked active; the transition is over
CachedActivate(t) ==
  /\ thr[t].pc = "activate"
  /\ \/ /\ rounds' = ChangeRoundActive(currentRound, TRUE)
        /\ wasActive' = wasActive \cup {currentRound}
        /\ CachedReturns(t)
        /\ UNCHANGED <<failures, tickErrors>>
     \/ /\ failures < MaxFailures
        /\ failures' = failures + 1
        /\ CachedThrows(t)
        /\ UNCHANGED <<rounds, wasActive>>
  /\ UNCHANGED <<now, tasks, taskSamplers, conn, pool, due, sampled, genSettled,
                 storeFailed, managed, currentRound, stopped, registration>>

\* one step of an invocation of this revision in flight
CachedStep ==
  \/ \E t \in Threads : CachedInitializeRound(t)
  \/ \E t \in Threads : StartNewRound(t)
  \/ \E t \in Threads : CachedCreateNewRound(t)
  \/ \E t \in Threads, s \in Subnets : GenerateTasksForSubnet(t, s)
  \/ \E t \in Threads : CachedDeactivate(t)
  \/ \E t \in Threads : CachedActivate(t)

NextCached ==
  \/ CachedStart
  \/ AdvanceClock
  \/ \E i \in due : CachedTimerFires(i)
  \/ CachedStep

SpecCached == InitSettling /\ [][NextCached]_vars

\* ------------------------------------------- the client of a transaction
\* the calls made: #storeTasks of one task of walrus and #changeRoundActive,
\* for the round of the store and for an id no row has
PoolCalls ==
  [op : {"storeTasks", "changeRoundActive"}, roundId : {1, 2},
   active : BOOLEAN]

\* a call that is neither made nor over
InCall(t) == conn[t].pc \notin {"none", "resolved", "rejected"}

\* the calls made so far by the callers up to t
RECURSIVE CallsMade(_)
CallsMade(t) == IF t = 0 THEN 0 ELSE conn[t].calls + CallsMade(t - 1)

\* #storeTasks or #changeRoundActive is called
CallWithClient(t, call) ==
  /\ ~InCall(t)
  /\ CallsMade(MaxThreads) < MaxCalls
  /\ call.op = "storeTasks" => ~call.active
  /\ conn' = [conn EXCEPT ![t] =
                [pc |-> "connect", op |-> call.op, roundId |-> call.roundId,
                 active |-> call.active, acquired |-> 0, released |-> 0,
                 error |-> "none", calls |-> conn[t].calls + 1]]
  /\ UNCHANGED <<rounds, tasks, pool>>

\* const client = await this.#db.connect(), outside the try
Connect(t) ==
  /\ conn[t].pc = "connect"
  /\ \/ /\ conn' = [conn EXCEPT ![t].pc = "begin", ![t].acquired = @ + 1]
        /\ pool' = pool + 1
     \/ /\ conn' = [conn EXCEPT ![t].pc = "rejected", ![t].error = "connect"]
        /\ UNCHANGED pool
  /\ UNCHANGED <<rounds, tasks>>

\* a statement of the try block failed: the catch block is next
Catch(t, error) ==
  conn' = [conn EXCEPT ![t].pc = "rollback", ![t].error = error]

\* await client.query('BEGIN')
Begin(t) ==
  /\ conn[t].pc = "begin"
  /\ \/ conn' = [conn EXCEPT ![t].pc = "statement"]
     \/ Catch(t, "begin")
  /\ UNCHANGED <<rounds, tasks, pool>>

\* the INSERT of #storeTasks or the UPDATE of #changeRoundActive
Statement(t) ==
  /\ conn[t].pc = "statement"
  /\ \/ /\ conn[t].op = "storeTasks" => ~ViolatesForeignKey(conn[t].roundId)
        /\ conn' = [conn EXCEPT ![t].pc = "commit"]
     \/ Catch(t, "statement")
  /\ UNCHANGED <<rounds, tasks, pool>>

\* the try block is over without an error: the finally block is next
TryReturns(t) == conn' = [conn EXCEPT ![t].pc = "release"]

\* await client.query('COMMIT'); #changeRoundActive then reads rows[0].id,
\* a TypeError when the UPDATE matched no row
Commit(t) ==
  /\ conn[t].pc = "commit"
  /\ \/ /\ conn[t].op = "storeTasks"
        /\ tasks' = tasks (+) TaskRows(conn[t].roundId, "walrus", <<"task1">>)
        /\ TryReturns(t)
        /\ UNCHANGED rounds
     \/ /\ conn[t].op = "changeRoundActive"
        /\ conn[t].roundId \in DOMAIN rounds
        /\ rounds' = ChangeRoundActive(conn[t].roundId, conn[t].active)
        /\ TryReturns(t)
        /\ UNCHANGED tasks
     \/ /\ conn[t].op = "changeRoundActive"
        /\ conn[t].roundId \notin DOMAIN rounds
        /\ Catch(t, "TypeError")
        /\ UNCHANGED <<rounds, tasks>>
     \/ /\ Catch(t, "commit")
        /\ UNCHANGED <<rounds, tasks>>
  /\ UNCHANGED pool

\* a catch block that leaves the function when its ROLLBACK fails, as one
\* that released the client itself after the ROLLBACK would
FailedRollbackSkipsRelease == "rejected"

\* the ROLLBACK of the catch block failed: its error leaves the catch block,
\* and the finally block runs all the same
AfterFailedRollback == "release"

\* await client.query('ROLLBACK'), then throw error
Rollback(t) ==
  /\ conn[t].pc = "rollback"
  /\ \/ conn' = [conn EXCEPT ![t].pc = "release"]
     \/ conn' = [conn EXCEPT ![t].pc = AfterFailedRollback,
                             ![t].error = "rollback"]
  /\ UNCHANGED <<rounds, tasks, pool>>

\* finally { client.release() }: the call resolves or rejects
Release(t) ==
  /\ conn[t].pc = "release"
  /\ conn' = [conn EXCEPT ![t].released = @ + 1,
                          ![t].pc = IF conn[t].error = "none" THEN "resolved"
                                                              ELSE "rejected"]
  /\ pool' = pool - 1
  /\ UNCHANGED <<rounds, tasks>>

\* the callers of the two functions, each statement on its own
NextPool ==
  /\ \/ \E t \in Threads, call \in PoolCalls : CallWithClient(t, call)
     \/ \E t \in Threads : Connect(t)
     \/ \E t \in Threads : Begin(t)
     \/ \E t \in Threads : Statement(t)
     \/ \E t \in Threads : Commit(t)
     \/ \E t \in Threads : Rollback(t)
     \/ \E t \in Threads : Release(t)
  /\ UNCHANGED <<now, taskSamplers, thr, intervals, due, checkRoundIntervalId,
                 failures, starts, sampled, genSettled, storeFailed, managed,
                 wasActive, currentRound, isInitializing, stopped,
                 registration, tickErrors>>

SpecPool == InitTasking /\ [][NextPool]_vars

\* ------------------------------------------------------------------ claims
\* C1: once start() has resolved, whenever no invocation is in flight exactly
\* one round of checker_rounds is active, also after transitions in which a
\* storage statement failed.
C1_ExactlyOneActiveWhenSettled ==
  (Settled /\ Scheduled # {}) => Cardinality(ActiveIds) = 1

\* C2: when start() is called again before the first call has settled on an
\* empty store, then at the moment both calls have settled (no statement
\* having failed) one round row exists, it is active, and one timer has been
\* scheduled.
BothStartsSettled ==
  /\ Len(starts) = 2
  /\ starts[2].reentered
  /\ \A i \in DOMAIN starts : starts[i].result # "pending"

C2_ReentrantStartCreatesOneRound ==
  [][(/\ ~BothStartsSettled
      /\ BothStartsSettled'
      /\ starts[1].callLen = 0
      /\ starts[2].callLen <= 1
      /\ failures' = 0)
     => (/\ Len(rounds') = 1
         /\ Cardinality(ActiveIds') = 1
         /\ Cardinality(Scheduled') = 1)]_vars

\* C3: a round created by the manager is active only if generateTasksForRound
\* has settled for it: no job of its generation is pending.
C3_ActiveOnlyAfterGeneration ==
  \A r \in managed :
    rounds[r].active =>
      /\ r \in genSettled
      /\ \A t \in Threads :
           thr[t].newRound = r => \A s \in Subnets : thr[t].jobs[s].st # "pending"

C3_Witness ==
  \E r \in managed :
    /\ rounds[r].active
    /\ \E s \in Subnets : sampled[r][s] # NoJob

\* C4: when generateTasksForRound has settled for a round and the sampler of
\* one subnet threw, that subnet owns no row of the round and every other
\* subnet owns exactly the rows of the payloads its sampler returned (none if
\* its own batch was rolled back).
ExpectedRows(r, s) ==
  IF HasTasks(sampled[r][s].fn) /\ <<r, s>> \notin storeFailed
    THEN TaskRows(r, s, sampled[r][s].fn.tasks)
    ELSE EmptyBag

C4_ThrowingSamplerIsIsolated ==
  \A r \in genSettled :
    (\E s \in Subnets : sampled[r][s].fn = Throws) =>
      /\ \A s \in Subnets : RowsOfSubnet(r, s) = ExpectedRows(r, s)
      /\ \A s \in Subnets : sampled[r][s].fn = Throws => RowsOfSubnet(r, s) = EmptyBag

C4_Witness ==
  \E r \in genSettled :
    /\ \E s \in Subnets : sampled[r][s].fn = Throws
    /\ \E s \in Subnets : /\ RowsOfSubnet(r, s) # EmptyBag
                          /\ RowsOfSubnet(r, s) = ExpectedRows(r, s)

\* the round the service reads as current is active and has not ended
LiveRoundIsCurrent ==
  \E r \in DOMAIN rounds : CurrentActiveRound = {r} /\ ~IsExpired(r)

\* the model holds MaxRounds rows: a transition waits at its INSERT
CreationBlocked ==
  /\ Len(rounds) = MaxRounds
  /\ \E t \in Threads : thr[t].pc = "createNewRound"

\* a timer callback catches an error in this step
TickFails == tickErrors' # tickErrors

\* C5: when a transition begun by the timer fails at round creation, at the
\* deactivation of the previous round or at the activation of the new one, the
\* timer stays scheduled, and once the store's statements succeed a later tick
\* leads to a round that is active, current and not expired.
C5_FailedTransitionIsRetried ==
  /\ [][TickFails => (intervals' = intervals /\ intervals' # {})]_vars
  /\ \A step \in {"createNewRound", "deactivate", "activate"} :
       (tickErrors.step = step) ~> (LiveRoundIsCurrent \/ CreationBlocked)

C5_Witness ==
  /\ tickErrors.step = "deactivate"
  /\ failures = MaxFailures
  /\ \E r \in managed :
       /\ r > tickErrors.rows
       /\ CurrentActiveRound = {r}
       /\ ~IsExpired(r)

\* the invocation t waits in generateTasksForRound for a sampler that never
\* settles
AwaitsHungSampler(t) ==
  /\ thr[t].pc = "generateTasks"
  /\ \E s \in Subnets : thr[t].jobs[s].st = "pending" /\ thr[t].jobs[s].fn = Hangs

\* only samplers that never settle are still awaited by t
OnlyHungSamplersLeft(t) ==
  /\ AwaitsHungSampler(t)
  /\ \A s \in Subnets :
       thr[t].jobs[s].st = "pending" => thr[t].jobs[s].fn = Hangs

\* C6 (as stated): a sampler that never settles does not keep the transition
\* from marking the new round active: once the other subnets' jobs are done
\* the transition can go on to its UPDATE statements.
C6_HungSamplerDoesNotBlockActivation ==
  \A t \in Threads :
    OnlyHungSamplersLeft(t) => ENABLED (Deactivate(t) \/ Activate(t))

\* C6 (amended): while a transition awaits a sampler that never settles, the
\* job of every other subnet can run and insert its rows, the subnets whose
\* jobs are done own exactly the rows of their payloads, and the new round
\* stays inactive: the transition cannot reach its UPDATE statements.
C6_HungSamplerBlocksOnlyActivation ==
  \A t \in Threads :
    AwaitsHungSampler(t) =>
      /\ \A u \in Subnets :
           (thr[t].jobs[u].st = "pending" /\ thr[t].jobs[u].fn # Hangs)
             => ENABLED GenerateTasksForSubnet(t, u)
      /\ \A u \in Subnets :
           thr[t].jobs[u].st = "settled"
             => RowsOfSubnet(thr[t].newRound, u) = ExpectedRows(thr[t].newRound, u)
      /\ ~rounds[thr[t].newRound].active
      /\ ~ENABLED (Deactivate(t) \/ Activate(t))

C6_Witness ==
  \E t \in Threads :
    /\ OnlyHungSamplersLeft(t)
    /\ \E u \in Subnets : RowsOfSubnet(thr[t].newRound, u) # EmptyBag
    /\ ~rounds[thr[t].newRound].active

\* stop() was called after start() had resolved, with no invocation in
\* flight
StoppedQuiet == stopped.called /\ stopped.scheduled /\ stopped.busy = {}

\* C11: once stop() has been called after start() resolved, with no
\* invocation in flight, no round check runs and checker_rounds never changes
\* again, whatever the clock shows.
C11_StoppedServiceLeavesRounds ==
  [][StoppedQuiet => (rounds' = rounds /\ Settled')]_vars

C11_Witness ==
  /\ StoppedQuiet
  /\ \E r \in ActiveIds : now > rounds[r].end_time

\* stop() was called while a transition was in flight
StoppedBusy == stopped.called /\ "transition" \in stopped.busy

\* the round created last by the manager
NewestManaged == CHOOSE r \in managed : \A q \in managed : q <= r

\* a transition in flight when stop() was called has run to its end: once
\* every invocation has returned, no statement having failed, the round
\* created last is active and owns the rows of its samplers' payloads
TransitionCompleted ==
  (Settled /\ failures = 0 /\ managed # {})
    => /\ rounds[NewestManaged].active
       /\ \A s \in Subnets :
            RowsOfSubnet(NewestManaged, s) = ExpectedRows(NewestManaged, s)

\* no timer callback begins in this step
NoneBegins == \A t \in Threads : thr[t].pc = "idle" => thr'[t].pc # "roundCheck"

Sampled(r, s) == Invoke(sampled[r][s].fn)

\* every sampler invoked for the round returned a list and every batch of the
\* round was committed
AllListsStored(r) ==
  /\ \A s \in Subnets :
       sampled[r][s] # NoJob => sampled[r][s].fn.kind = "returns"
  /\ \A s \in Subnets : <<r, s>> \notin storeFailed

\* the rows of the round that carry the payload p for the subnet s
CopiesOf(r, s, p) ==
  CopiesIn([round_id |-> r, subnet |-> s, task_definition |-> p], tasks)

\* C13: when every registered sampler returned a list and every insert
\* succeeded, once generateTasksForRound has settled each subnet owns exactly
\* one row of the round per payload its sampler returned: as many rows as
\* payloads, and each payload as often as it was returned.
C13_RowsAreThePayloads ==
  \A r \in genSettled :
    AllListsStored(r) =>
      \A s \in Subnets :
        /\ BagCardinality(RowsOfSubnet(r, s)) = Len(Sampled(r, s))
        /\ \A p \in {"task1", "task2", "task3"} :
             CopiesOf(r, s, p) =
               Cardinality({i \in DOMAIN Sampled(r, s) : Sampled(r, s)[i] = p})

C13_Witness ==
  \E r \in genSettled :
    /\ AllListsStored(r)
    /\ \A s \in Subnets : Len(Sampled(r, s)) = 2
    /\ \E s \in Subnets : CopiesOf(r, s, "task3") = 2
    /\ BagCardinality(RowsOf(r)) = 4

\* C14: when the insert of one subnet's batch fails, the batch is rolled back
\* and nothing else is: the subnet owns no row of the round, no committed row
\* is lost, neither start() nor a timer callback sees an error, and once
\* generateTasksForRound has settled every other subnet whose batch was
\* committed owns one row per payload.
C14_FailedBatchIsRolledBackAlone ==
  /\ [](\A r \in genSettled : \A s \in Subnets :
          <<r, s>> \in storeFailed =>
            /\ RowsOfSubnet(r, s) = EmptyBag
            /\ \A u \in Subnets \ {s} :
                 (HasTasks(sampled[r][u].fn) /\ <<r, u>> \notin storeFailed)
                   => BagCardinality(RowsOfSubnet(r, u)) = Len(Sampled(r, u)))
  /\ [][storeFailed' # storeFailed =>
          /\ \A row \in BagToSet(tasks) : CopiesIn(row, tasks') = tasks[row]
          /\ starts' = starts
          /\ tickErrors' = tickErrors]_vars

C14_Witness ==
  \E r \in genSettled : \E s \in Subnets :
    /\ <<r, s>> \in storeFailed
    /\ \E u \in Subnets \ {s} : BagCardinality(RowsOfSubnet(r, u)) = 2

\* a sampler of the round threw or a batch of the round was rolled back
GenerationFailed(r) ==
  \E s \in Subnets : sampled[r][s].fn = Throws \/ <<r, s>> \in storeFailed

\* the only statements that failed are inserts of task batches
OnlyBatchesFailed ==
  failures = Cardinality({x \in storeFailed : ~ViolatesNotNull(Sampled(x[1], x[2]))})

\* C15: a sampler that throws or a batch that is rolled back does not end the
\* transition: the step leaves start() and the timer callback without an
\* error, and once every invocation has returned, no other statement having
\* failed, the round created last is active and the rounds the manager found
\* are inactive.
C15_FailedSourceLeavesActivation ==
  /\ [][\A t \in Threads :
          (thr[t].pc = "generateTasks" /\ thr'[t] # thr[t])
            => /\ thr'[t].pc \in {"generateTasks", AfterGenerate(t)}
               /\ starts' = starts
               /\ tickErrors' = tickErrors]_vars
  /\ []((/\ Settled
         /\ managed # {}
         /\ OnlyBatchesFailed) =>
          (GenerationFailed(NewestManaged) =>
             /\ rounds[NewestManaged].active
             /\ \A q \in DOMAIN rounds \ managed : ~rounds[q].active))

C15_Witness ==
  /\ Settled
  /\ managed # {}
  /\ \E s \in Subnets : <<NewestManaged, s>> \in storeFailed
  /\ \E s \in Subnets : sampled[NewestManaged][s].fn = Throws
  /\ RowsOf(NewestManaged) = EmptyBag
  /\ rounds[NewestManaged].active
  /\ \E q \in DOMAIN rounds \ managed : ~rounds[q].active

\* the round generateTasksForRound is called for in this step
Generated == CHOOSE r \in DOMAIN sampled' \ DOMAIN sampled : TRUE

\* C16: with no sampler registered, generateTasksForRound inserts no row,
\* fails no statement and has returned when the step is over; called directly
\* it leaves the store as it is and no invocation behind, and called by a
\* transition it goes on to the activation of the round created, which owns
\* no task when the transition has returned without a failure.
C16_NoSamplersNoTasks ==
  /\ [][(Registered = {} /\ DOMAIN sampled' # DOMAIN sampled) =>
          /\ tasks' = tasks
          /\ storeFailed' = storeFailed
          /\ failures' = failures
          /\ starts' = starts
          /\ tickErrors' = tickErrors
          /\ Generated \in genSettled'
          /\ IF Generated \in DOMAIN rounds
               THEN rounds' = rounds /\ thr' = thr
               ELSE \E t \in Threads :
                      /\ thr[t].pc = "createNewRound"
                      /\ thr'[t].newRound = Generated
                      /\ thr'[t].pc = AfterGenerate(t)]_vars
  /\ [](\A r \in DOMAIN sampled :
          sampled[r] = NoJobs =>
            /\ RowsOf(r) = EmptyBag
            /\ (Settled /\ failures = 0 /\ r \in managed /\ r = NewestManaged)
                 => rounds[r].active)

C16_Witness ==
  /\ Settled
  /\ managed # {}
  /\ sampled[NewestManaged] = NoJobs
  /\ rounds[NewestManaged].active
  /\ RowsOf(NewestManaged) = EmptyBag
  /\ \E r \in DOMAIN sampled \ managed : sampled[r] = NoJobs /\ r \in genSettled

\* a call of registerTaskSampler has just thrown
RegistrationFails ==
  registration' # registration /\ registration'.error # <<>>

\* C17: a registerTaskSampler call that is given something that is not a
\* function throws the error naming a source and leaves the registry, the
\* rounds and the tasks as they were, so a sampler registered before stays;
\* nothing that is not a function is ever in the registry.
C17_NonFunctionIsRefused ==
  /\ [][RegistrationFails =>
          /\ \E s \in Subnets : registration'.error = MustBeFunction(s)
          /\ taskSamplers' = taskSamplers
          /\ registration'.last = registration.last
          /\ rounds' = rounds
          /\ tasks' = tasks
          /\ sampled' = sampled]_vars
  /\ [](\A s \in Subnets : taskSamplers[s] # Null)

C17_Witness ==
  /\ registration.error = MustBeFunction("walrus")
  /\ taskSamplers["walrus"] = Returns(<<"task1", "task2">>)
  /\ taskSamplers["arweave"] = NoFn

\* the jobs of a generateTasksForRound that finds the registry reg
JobsOf(reg) ==
  [s \in Subnets |-> IF reg[s] = NoFn THEN NoJob
                                      ELSE [st |-> "pending", fn |-> reg[s]]]

\* C18: the registry holds for every source the sampler registered last,
\* also when the source was registered before, and a generateTasksForRound
\* invokes for every source that sampler, once, and no other.
C18_LastRegistrationWins ==
  /\ [](taskSamplers = registration.last)
  /\ [][DOMAIN sampled' # DOMAIN sampled =>
          /\ sampled'[Generated] = JobsOf(registration.last)
          /\ \A r \in DOMAIN sampled : sampled'[r] = sampled[r]]_vars
  /\ [](\A r \in DOMAIN sampled, s \in Subnets :
          (r \in genSettled /\ <<r, s>> \notin storeFailed
             /\ sampled[r][s].fn.kind = "returns") =>
            \A p \in {"task1", "task2", "task3"} :
              CopiesOf(r, s, p) =
                Cardinality({i \in DOMAIN Sampled(r, s) : Sampled(r, s)[i] = p}))

C18_Witness ==
  /\ "walrus" \in registration.again
  /\ 1 \in genSettled
  /\ sampled[1]["walrus"].fn = Returns(<<"task3", "task3">>)
  /\ CopiesOf(1, "walrus", "task3") = 2
  /\ CopiesOf(1, "walrus", "task1") = 0

\* C19: every row the manager has inserted, at start() or at a tick, at any
\* reading of the clock, ends exactly one round duration after it starts, and
\* so after it starts.
C19_RoundsLastTheRoundDuration ==
  \A r \in managed :
    /\ rounds[r].end_time - rounds[r].start_time = RoundDurationMs
    /\ rounds[r].end_time > rounds[r].start_time

C19_Witness ==
  \E r \in managed, q \in managed :
    /\ rounds[r].start_time = InitNow
    /\ rounds[q].start_time = MaxTime
    /\ rounds[q].end_time = MaxTime + RoundDurationMs

\* C20: of two rows the manager has inserted, no storage statement having
\* failed, the one inserted later does not start before the end of the one
\* inserted earlier.
C20_ManagedRoundsDoNotOverlap ==
  failures = 0 =>
    \A r \in managed, q \in managed :
      r < q => rounds[q].start_time >= rounds[r].end_time

\* C21: no storage statement having failed, the step in which the manager
\* inserts a round begins in a store where no round is active or every active
\* round has ended.
C21_CreatesOnlyWithoutLiveRound ==
  [][(Len(rounds') > Len(rounds) /\ failures' = 0) =>
       \A a \in ActiveIds : IsExpired(a)]_vars

\* the read of the invocation t fails in this step
ReadFails(t) ==
  /\ thr[t].pc \in {"initializeRound", "roundCheck", "startNewRound"}
  /\ thr'[t] # thr[t]
  /\ failures' = failures + 1

\* a failed read is answered with `no active round`: start() and the timer
\* callback go on to the transition, the transition goes on to create with
\* no round to deactivate, and no error reaches start() or the callback
FailedReadIsNoRound ==
  \A t \in Threads :
    ReadFails(t) =>
      /\ thr'[t].pc = IF thr[t].pc = "startNewRound" THEN "createNewRound"
                                                     ELSE "startNewRound"
      /\ thr[t].pc = "startNewRound" => thr'[t].currentRound = 0
      /\ starts' = starts
      /\ tickErrors' = tickErrors
      /\ intervals' = intervals

\* C22: a failed read of the active round is answered with `no active
\* round`, without an error for start() or the timer callback, and the
\* transition attempted after it has no round to deactivate.
C22_FailedReadDeactivatesNone ==
  /\ [][FailedReadIsNoRound]_vars
  /\ [][\A t \in Threads :
          (thr[t].readFailed /\ thr'[t].pc = "createNewRound") =>
            thr'[t].currentRound = 0]_vars

\* C22 (amended): a failed read of the active round is answered with `no
\* active round`, without an error for start() or the timer callback; a
\* transition whose own read failed deactivates no round, and a transition
\* attempted after a failed read of start() or the callback deactivates the
\* round its own read returned, and no other.
C22_FailedReadInTransitionDeactivatesNone ==
  /\ [][FailedReadIsNoRound]_vars
  /\ [](\A t \in Threads : thr[t].pc = "deactivate" => thr[t].currentRound # 0)
  /\ [][\A r \in DOMAIN rounds :
          (rounds[r].active /\ ~rounds'[r].active) =>
            \E t \in Threads : /\ thr[t].pc = "deactivate"
                                /\ thr[t].currentRound = r]_vars

C22_Witness ==
  \E t \in Threads :
    /\ thr[t].readFailed
    /\ thr[t].pc = "startNewRound"
    /\ \E a \in ActiveIds : ~IsExpired(a)

\* the INSERT or an UPDATE of the transition of t fails in this step
WriteFails(t) ==
  /\ thr[t].pc \in {"createNewRound", "deactivate", "activate"}
  /\ thr'[t] # thr[t]
  /\ failures' = failures + 1

\* C23: a failed INSERT or UPDATE of checker_rounds ends the transition at
\* that statement, the store unchanged. A transition of start() rejects
\* start(); a transition of a timer callback is caught by the callback, which
\* returns with its timer still scheduled, and a callback begins only when
\* the timer fires.
C23_WriteFailureEndsTransition ==
  /\ [][\A t \in Threads :
          WriteFails(t) =>
            /\ thr'[t] = IdleThread
            /\ rounds' = rounds
            /\ IF thr[t].kind = "tick"
                 THEN /\ starts' = starts
                      /\ intervals' = intervals
                      /\ checkRoundIntervalId' = checkRoundIntervalId
                      /\ tickErrors'.step = thr[t].pc
                 ELSE /\ starts'[thr[t].sid].result = "rejected"
                      /\ tickErrors' = tickErrors]_vars
  /\ [][\A t \in Threads :
          (thr[t].pc # "roundCheck" /\ thr'[t].pc = "roundCheck") =>
            \E i \in due : due' = due \ {i}]_vars

C23_Witness ==
  /\ Settled
  /\ tickErrors.step = "deactivate"
  /\ tickErrors.rows = Len(rounds)
  /\ intervals # {}
  /\ due = {}
  /\ \E r \in managed : ~rounds[r].active

\* the invocations that are inside #startNewRound
InTransition == {t \in Threads : thr[t].pc \in TransitionSteps}

\* C24: no storage statement having failed, at most one invocation of the
\* instance is inside #startNewRound at any instant.
C24_TransitionsDoNotOverlap ==
  failures = 0 => Cardinality(InTransition) <= 1

\* the UPDATE of the invocation t at the step pc is committed in this step
Commits(t, pc) ==
  /\ thr[t].pc = pc
  /\ thr'[t] # thr[t]
  /\ failures' = failures

\* C25: with two instances over one store, the transition of one instance
\* deactivates the round it read itself and no other, and its activation
\* leaves every round that is active then active; so when both instances
\* read the same round, or none, both rounds they create end up active.
C25_InstancesActivateSideBySide ==
  [][\A t \in Threads :
       /\ Commits(t, "deactivate") =>
            ActiveIds' = ActiveIds \ {thr[t].currentRound}
       /\ Commits(t, "activate") =>
            ActiveIds' = ActiveIds \cup {thr[t].newRound}]_vars

C25_Witness ==
  /\ Settled
  /\ due = {}
  /\ failures = 0
  /\ \A i \in Instances : i \in Scheduled
  /\ Cardinality(ActiveIds \cap managed) = 2
  /\ \A r \in ActiveIds : rounds[r].start_time = now

\* the transition of t has inserted its round and not yet deactivated the
\* round it read
Superseding(t) ==
  thr[t].pc \in {"generateTasks", "deactivate"} /\ thr[t].currentRound # 0

\* the transition of t has deactivated the round it read and not yet
\* activated its own
Between(t) == thr[t].pc = "activate" /\ thr[t].currentRound # 0

\* C26: the steps of a transition being separate statements, a reader of the
\* store finds two active rounds between the INSERT and the deactivation of
\* the round the transition read, and none between that deactivation and the
\* activation; no storage statement fails.
C26_ReaderSeesTwoThenNone ==
  failures = 0 =>
    \A t \in Threads :
      /\ Superseding(t) => Cardinality(ActiveIds) = 2
      /\ Between(t) => ActiveIds = {}

\* C26 (amended): the steps of a transition being separate statements, a
\* reader of the store finds no active round between the deactivation of the
\* round the transition read and the activation of the round it created;
\* before that deactivation it finds the round read as the one active round,
\* the new row being inserted inactive; no storage statement fails.
C26_ReaderSeesOneThenNone ==
  failures = 0 =>
    \A t \in Threads :
      /\ Superseding(t) => ActiveIds = {thr[t].currentRound}
      /\ Between(t) => ActiveIds = {}
      /\ thr[t].pc \in TransitionSteps => Cardinality(ActiveIds) <= 1

C26_Witness ==
  \E t \in Threads :
    /\ Between(t)
    /\ failures = 0
    /\ ActiveIds = {}
    /\ ~rounds[thr[t].newRound].active
    /\ RowsOf(thr[t].newRound) # EmptyBag

\* the first instant at or after the end of the round a at which the timer
\* of the start() sid fires
FirstTick(sid, a) ==
  CHOOSE t \in 0..(TimedMaxTime + 2 * CheckRoundIntervalMs) :
    /\ t > starts[sid].callNow
    /\ t >= rounds[a].end_time
    /\ FiresAt(sid, t)
    /\ \A u \in 0..(t - 1) :
         ~(u > starts[sid].callNow /\ u >= rounds[a].end_time /\ FiresAt(sid, u))

\* C27: while the timer is scheduled and no storage statement has failed, a
\* round is active for at most one period of the timer past its end_time.
C27_ReplacedWithinOneInterval ==
  (failures = 0 /\ Scheduled # {}) =>
    \A a \in ActiveIds : now - rounds[a].end_time <= CheckRoundIntervalMs

\* C27 (amended): while the timer is scheduled and no storage statement has
\* failed, a round that has ended is active with no invocation in flight
\* only before the first tick at or after its end_time, less than one period
\* past it, and is deactivated by the transition that tick begins, before
\* the tick after it.
C27_ReplacedByFirstTick ==
  (failures = 0 /\ Scheduled # {}) =>
    \A a \in ActiveIds, sid \in Scheduled :
      /\ now < FirstTick(sid, a) + CheckRoundIntervalMs
      /\ now - rounds[a].end_time < 2 * CheckRoundIntervalMs
      /\ (Settled /\ due = {}) =>
           /\ now < FirstTick(sid, a)
           /\ now - rounds[a].end_time < CheckRoundIntervalMs

C27_Witness ==
  /\ failures = 0
  /\ Scheduled # {}
  /\ \E a \in ActiveIds, t \in Threads :
       /\ now - rounds[a].end_time > CheckRoundIntervalMs
       /\ thr[t].pc = "deactivate"
       /\ thr[t].currentRound = a

\* the rows of the pair are all the payloads its sampler returned, or none
AllOrNothing(r, s) ==
  \/ RowsOfSubnet(r, s) = EmptyBag
  \/ /\ ~ViolatesNotNull(Sampled(r, s))
     /\ RowsOfSubnet(r, s) = TaskRows(r, s, Sampled(r, s))

\* C28: at every instant, and so once generateTasksForRound has settled,
\* the rows of a round and a subnet are either one row for every payload the
\* sampler returned or none; a batch that failed has none.
C28_BatchIsAllOrNothing ==
  \A r \in DOMAIN sampled : \A s \in Subnets :
    /\ AllOrNothing(r, s)
    /\ <<r, s>> \in storeFailed => RowsOfSubnet(r, s) = EmptyBag

C28_Witness ==
  \E r \in genSettled :
    /\ sampled[r]["walrus"].fn = Returns(<<"task3", "undefined">>)
    /\ <<r, "walrus">> \in storeFailed
    /\ RowsOfSubnet(r, "walrus") = EmptyBag
    /\ sampled[r]["arweave"].fn = Returns(<<"task3", "task3">>)
    /\ CopiesOf(r, "arweave", "task3") = 2

\* the sampler returned the empty list or a value that is no list
EmptyHanded(fn) == fn = NonList \/ fn = Returns(<<>>)

\* the job of the subnet s of the invocation t settles in this step
JobSettles(t, s) ==
  /\ thr[t].pc = "generateTasks"
  /\ thr[t].jobs[s].st = "pending"
  /\ thr'[t].pc # "generateTasks" \/ thr'[t].jobs[s].st # "pending"

\* C29: the job of a sampler that returned the empty list or no list settles
\* without a row, without a statement that could fail and without an error
\* for start() or the timer callback, and generation goes on; when the
\* transition is over, no statement having failed, the round is active, the
\* subnet owns no row of it and the other subnet owns its payloads.
C29_EmptyHandedSamplerIsNoError ==
  /\ [][\A t \in Threads, s \in Subnets :
          (JobSettles(t, s) /\ EmptyHanded(thr[t].jobs[s].fn)) =>
            /\ tasks' = tasks
            /\ failures' = failures
            /\ storeFailed' = storeFailed
            /\ starts' = starts
            /\ tickErrors' = tickErrors
            /\ thr'[t].pc \in {"generateTasks", AfterGenerate(t)}]_vars
  /\ [](\A r \in managed, s \in Subnets :
          EmptyHanded(sampled[r][s].fn) =>
            /\ RowsOfSubnet(r, s) = EmptyBag
            /\ <<r, s>> \notin storeFailed
            /\ (Settled /\ failures = 0 /\ r = NewestManaged) =>
                 /\ rounds[r].active
                 /\ \A u \in Subnets \ {s} :
                      sampled[r][u].fn.kind = "returns" =>
                        RowsOfSubnet(r, u) = TaskRows(r, u, Sampled(r, u)))

C29_Witness ==
  /\ Settled
  /\ failures = 0
  /\ managed # {}
  /\ sampled[NewestManaged]["walrus"].fn = NonList
  /\ RowsOfSubnet(NewestManaged, "walrus") = EmptyBag
  /\ BagCardinality(RowsOfSubnet(NewestManaged, "arweave")) = 2
  /\ rounds[NewestManaged].active

\* the smaller of two numbers
Min(a, b) == IF a < b THEN a ELSE b

\* C30: every sampler is invoked with maxTasksPerSubnet, so a sampler that
\* keeps to its argument yields at most that many rows, and the list a
\* sampler returns is inserted whole: a sampler that ignores the capacity
\* owns one row for every payload it returned, more than the capacity.
C30_CapacityIsPassedNotEnforced ==
  \A r \in genSettled, s \in Subnets :
    <<r, s>> \notin storeFailed =>
      LET fn == sampled[r][s].fn IN
      /\ fn.kind = "returns" =>
           /\ RowsOfSubnet(r, s) = TaskRows(r, s, fn.tasks)
           /\ BagCardinality(RowsOfSubnet(r, s)) = Len(fn.tasks)
      /\ fn.kind = "capped" =>
           BagCardinality(RowsOfSubnet(r, s)) = Min(Len(fn.tasks), MaxTasksPerSubnet)

C30_Witness ==
  \E r \in genSettled :
    /\ sampled[r]["walrus"].fn = Returns(<<"task1", "task2">>)
    /\ BagCardinality(RowsOfSubnet(r, "walrus")) > MaxTasksPerSubnet
    /\ sampled[r]["arweave"].fn = Capped(<<"task3", "task3">>)
    /\ BagCardinality(RowsOfSubnet(r, "arweave")) = MaxTasksPerSubnet

\* C31: no step takes a row out of checker_rounds or changes the start_time
\* or the end_time of a row (its id is its index), and a round that has been
\* active and is inactive is never marked active again, so the flag of a
\* round falls from true to false at most once
C31_FlagFallsOnceIdentityKept ==
  [][/\ Len(rounds') >= Len(rounds)
     /\ \A r \in DOMAIN rounds :
          /\ rounds'[r].start_time = rounds[r].start_time
          /\ rounds'[r].end_time = rounds[r].end_time
          /\ ~rounds[r].active /\ rounds'[r].active => r \notin wasActive]_vars

\* a round the manager created, activated and deactivated, with another
\* transition over since
C31_Witness ==
  /\ \A t \in Threads : thr[t].pc = "idle"
  /\ \E r \in managed :
       /\ r \in wasActive
       /\ ~rounds[r].active
       /\ \E q \in managed : q > r /\ rounds[q].active

\* C32: the step of a stop() changes no row of checker_rounds and no row of
\* checker_subnet_tasks: a round that was active before stop() is active
\* after it
C32_StopLeavesTheRows ==
  [][stopped' # stopped => rounds' = rounds /\ tasks' = tasks]_vars

\* a stop() that found the timer scheduled and nothing in flight, with an
\* active round and its tasks in the store
C32_Witness ==
  /\ stopped.called
  /\ stopped.scheduled
  /\ stopped.busy = {}
  /\ intervals = {}
  /\ \E r \in ActiveIds : RowsOf(r) # EmptyBag

\* C33: every row of checker_subnet_tasks names a round that has a row in
\* checker_rounds; while checker_rounds is left alone the rows of
\* checker_subnet_tasks are only added to, none is changed or removed; and
\* when the rounds are deleted no task of theirs stays
C33_TasksReferenceRounds ==
  /\ [](\A row \in BagToSet(tasks) : row.round_id \in DOMAIN rounds)
  /\ [][rounds' = rounds =>
          \A row \in BagToSet(tasks) :
            CopiesIn(row, tasks') >= CopiesIn(row, tasks)]_vars
  /\ [][Len(rounds') < Len(rounds) =>
          \A r \in DOMAIN rounds \ DOMAIN rounds' :
            \A row \in BagToSet(tasks') : row.round_id # r]_vars

\* the round of the store was deleted after the batch of a subnet had been
\* stored for it, and the batch of that subnet for an id that never had a row
\* was refused, no other statement having failed
C33_Witness ==
  /\ rounds = << >>
  /\ tasks = EmptyBag
  /\ failures = 0
  /\ {1, 2} \subseteq genSettled
  /\ \E s \in Subnets :
       /\ HasTasks(sampled[1][s].fn)
       /\ <<1, s>> \notin storeFailed
       /\ <<2, s>> \in storeFailed

\* C34: a round is marked active only by the transition that created it, and
\* by then the round that transition read as the current one, if it read
\* one, has been marked inactive; a transition whose deactivation of that
\* round fails is over at once and leaves its new round inactive
DeactivationFails(t) ==
  thr[t].pc = "deactivate" /\ failures' # failures /\ thr'[t] # thr[t]

C34_ActivatesAfterDeactivation ==
  [][/\ \A r \in DOMAIN rounds :
          ~rounds[r].active /\ rounds'[r].active =>
            \E t \in Threads :
              /\ thr[t].pc = "activate"
              /\ thr[t].newRound = r
              /\ thr[t].currentRound # 0 => ~rounds[thr[t].currentRound].active
     /\ \A t \in Threads :
          DeactivationFails(t) =>
            /\ thr'[t].pc = "idle"
            /\ ~rounds'[thr[t].newRound].active]_vars

\* the deactivation of a timer's transition failed: its new round has its
\* tasks and was never active, the round it read is still the active one
C34_Witness ==
  /\ Settled
  /\ tickErrors.step = "deactivate"
  /\ \E r \in managed :
       /\ r \notin wasActive
       /\ r \in genSettled
       /\ \E q \in ActiveIds : q < r

\* C35: whenever no invocation is in flight, every round that owns a row of
\* checker_subnet_tasks is active or has been active
C35_TaskOwnersWereActive ==
  Settled => \A r \in DOMAIN rounds : RowsOf(r) # EmptyBag => r \in wasActive

\* C36: at most one timer of the instance is live at any time, however many
\* times start() has been called, and the step of a stop() leaves none
C36_OneTimerPerInstance ==
  /\ [](Cardinality(intervals) <= 1)
  /\ [][intervals' # intervals /\ intervals' \subseteq intervals =>
          intervals' = {}]_vars

\* the stop() on record was called during the first start(), in its
\* transition, before any timer was scheduled
StoppedDuringStart ==
  /\ stopped.called
  /\ ~stopped.scheduled
  /\ Len(starts) = 1

\* C37: when stop() was called during start(), no timer is live once start()
\* has settled.
C37_StopDuringStartLeavesNoTimer ==
  (StoppedDuringStart /\ starts[1].result # "pending") => intervals = {}

\* what start() does after such a stop(): when it resolves it schedules its
\* timer, which is then the one live timer; no timer is live when it rejects
StopDuringStartIsLost ==
  [][(StoppedDuringStart /\ starts[1].result = "pending"
                         /\ starts'[1].result # "pending") =>
       IF starts'[1].result = "resolved"
         THEN intervals' = {1} /\ checkRoundIntervalId' = 1
         ELSE intervals' = {}]_vars

\* start() resolved after the stop(), and a callback of its timer is due
StopDuringStartWitness ==
  /\ StoppedDuringStart
  /\ starts[1].result = "resolved"
  /\ 1 \in due

\* C38: in the revision that caches the round, whenever no invocation is in
\* flight the round #currentRound names is flagged active in the store and is
\* the one the store would answer a read with, also after a transition that
\* failed part-way; and #currentRound names a round whenever a timer is live
C38_CacheIsTheActiveRound ==
  /\ (Settled /\ currentRound # 0) => currentRound \in CurrentActiveRound
  /\ intervals # {} => currentRound # 0

\* the same of a manager whose start() was called once
CacheOfOneStartIsTheActiveRound ==
  Len(starts) <= 1 => C38_CacheIsTheActiveRound

\* C39: whenever no invocation is in flight and a transition has created a
\* round, one round is flagged active: the one created last, which has the
\* greatest id and the latest start_time
C39_ActiveIsTheNewest ==
  (Settled /\ managed # {}) =>
    /\ ActiveIds = {Len(rounds)}
    /\ \A r \in DOMAIN rounds :
         rounds[r].start_time <= rounds[Len(rounds)].start_time

\* the same as long as no statement has failed
ActiveIsTheNewestWithoutFailure == failures = 0 => C39_ActiveIsTheNewest

\* C40: a call of #storeTasks or #changeRoundActive takes at most one client
\* and has released it once, and no more, by the time it resolves or rejects,
\* whether it committed, rolled back or failed to roll back; a call that is
\* over holds no client, and the pool has no client checked out when no call
\* is in flight
C40_ClientReleasedOnce ==
  /\ \A t \in Threads :
       /\ conn[t].released <= conn[t].acquired
       /\ conn[t].acquired <= 1
       /\ ~InCall(t) => conn[t].released = conn[t].acquired
       /\ conn[t].pc \in {"resolved", "rejected"} =>
            (conn[t].acquired = 0 <=> conn[t].error = "connect")
  /\ pool = Cardinality({t \in Threads : conn[t].acquired > conn[t].released})
  /\ (\A t \in Threads : ~InCall(t)) => pool = 0

\* one call rejected with the error of its failed ROLLBACK and another
\* resolved after its COMMIT, each with its client released
C40_Witness ==
  /\ pool = 0
  /\ \E t, u \in Threads :
       /\ conn[t].pc = "rejected"
       /\ conn[t].error = "rollback"
       /\ conn[t].released = 1
       /\ conn[u].pc = "resolved"
       /\ conn[u].released = 1

\* C10: a start() whose round creation failed rejects with the storage error
\* and schedules no timer.
C10_StartRejectsWithStorageError ==
  \A sid \in DOMAIN starts :
    starts[sid].result = "rejected" =>
      /\ starts[sid].error = "StorageError"
      /\ sid \notin intervals

\* a call of start() settles in this step
Settles(sid) == starts[sid].result = "pending" /\ starts'[sid].result # "pending"

\* no storage statement failed between the call of start() and this step
NoFailureSince(sid) == failures' = starts[sid].callFailures

\* the rounds that were active and had not ended when start() was called
LiveAtCall(sid) ==
  {i \in starts[sid].callActive : rounds[i].end_time > starts[sid].callNow}

\* C7 (as stated): when the store holds an active round whose end_time is in
\* the future at the call of start(), then when start() settles that round is
\* the only active round and no row has been added.  Stated for the calls
\* during which no storage statement failed, where the fail-open read of
\* #getCurrentActiveRound plays no part.
C7_StartKeepsLiveRound ==
  [][\A sid \in DOMAIN starts :
       (Settles(sid) /\ LiveAtCall(sid) # {} /\ NoFailureSince(sid))
       => (/\ ActiveIds' = LiveAtCall(sid)
           /\ Len(rounds') = starts[sid].callLen)]_vars

\* C7 (amended): when the read of #initializeRound succeeds and returns the
\* only active round while its end_time is still in the future, start()
\* resolves in that step, schedules its timer and leaves checker_rounds as it
\* was: the same round is the only active one and no row has been added.
C7_StartResumesRoundReadLive ==
  [][\A t \in Threads :
       (/\ thr[t].pc = "initializeRound"
        /\ thr'[t] # thr[t]
        /\ failures' = failures
        /\ \E i \in DOMAIN rounds : ActiveIds = {i} /\ ~IsExpired(i))
       => (/\ rounds' = rounds
           /\ starts'[thr[t].sid].result = "resolved"
           /\ thr[t].sid \in intervals')]_vars

C7_Witness ==
  \E sid \in DOMAIN starts :
    /\ starts[sid].result = "resolved"
    /\ LiveAtCall(sid) # {}
    /\ ActiveIds = LiveAtCall(sid)
    /\ Len(rounds) = starts[sid].callLen
    /\ managed = {}

\* the store held one round, active and ended, when start() was called
OneExpiredAtCall(sid) ==
  /\ starts[sid].callLen = 1
  /\ starts[sid].callActive = {1}
  /\ rounds[1].end_time < starts[sid].callNow

ExpiredRoundReplaced ==
  /\ Len(rounds) = 2
  /\ ~rounds[1].active
  /\ rounds[2].active
  /\ rounds[2].start_time > rounds[1].end_time

C9_StartCreatesLiveRound ==
  [][\A sid \in DOMAIN starts :
       (Settles(sid) /\ starts[sid].callActive = {} /\ NoFailureSince(sid))
       => \E r \in DOMAIN rounds' :
            /\ ActiveIds' = {r}
            /\ r > starts[sid].callLen
            /\ rounds'[r].end_time > now']_vars

\* C9 (amended): ... exactly one round is active, start() created it, and its
\* end_time is at least roundDurationMs after the call of start().
C9_StartCreatesRoundOfFullDuration ==
  [][\A sid \in DOMAIN starts :
       (Settles(sid) /\ starts[sid].callActive = {} /\ NoFailureSince(sid))
       => \E r \in DOMAIN rounds' :
            /\ ActiveIds' = {r}
            /\ r > starts[sid].callLen
            /\ rounds'[r].end_time >= starts[sid].callNow + RoundDurationMs]_vars

C9_Witness ==
  \E sid \in DOMAIN starts :
    /\ starts[sid].result = "resolved"
    /\ starts[sid].callActive = {}
    /\ failures = 0
    /\ \E r \in managed : ActiveIds = {r} /\ r > starts[sid].callLen

====
